---- MODULE Spec2Model ----
(***************************************************************************)
(* A model of the text-processing core of neurommind-mapper                *)
(* (src/src/utils.py): the Mermaid mindmap repair pass                     *)
(* validate_and_fix_mermaid, the URL normaliser normalize_url and the      *)
(* diagram-complexity estimator analyze_diagram_complexity; and of the two  *)
(* user-interface entry points that call it, show_main_page of              *)
(* src/src/main.py and main of src/src/neurommind_mapper/main.py, as one    *)
(* browser session of script runs.                                          *)
(*                                                                         *)
(* A Python str is modelled as a sequence of one-character strings, so     *)
(* that strip, split, replace, startswith and the regular expressions of   *)
(* the source are computed character by character.                         *)
(***************************************************************************)
EXTENDS Integers, Sequences, FiniteSets, TLC

VARIABLES
    \* validate_and_fix_mermaid (utils.py 303-375)
    raw_code,         \* the argument as the caller passed it
    mermaid_code,     \* the parameter, reassigned to the fence-stripped text (line 314)
    pc,               \* "idle" | "start" | "loop" | "done"
    lines,            \* line 316
    idx,              \* position of the for loop of line 321 (next line to read)
    fixed_lines,      \* line 317
    root_found,       \* line 318
    current_branch,   \* line 319: <<>> for None, <<content>> for a str
    classified,       \* per line read by the loop, what the loop did with it
    repaired,         \* <<>> before the return, then <<the returned str>>
    \* normalize_url (utils.py 377-403)
    url,              \* the argument of the first call
    url_results,      \* the values returned by successive calls, each fed the previous one
    \* analyze_diagram_complexity (utils.py 405-570)
    diagram_code,     \* the argument
    analysis,         \* <<>> before the return, then <<the returned dict>>
    \* create_mermaid_html (utils.py 572-1223), which analyses its argument first
    html_code,        \* <<>> before the return, then <<the parts of the returned page>>
    \* one browser session of an entry point (main.py, neurommind_mapper/main.py)
    entry_point,      \* "none" | "app" (src/src/main.py) | "package" (neurommind_mapper/main.py)
    api_key,          \* os.getenv("ANTHROPIC_API_KEY"): <<>> for None, <<value>> for a str
    url_input,        \* the text held by the st.text_input widget
    script,           \* "waiting" for the user | "rerun" after st.rerun()
    last_url,         \* st.session_state.last_url: <<>> when the key is absent
    cached_text,      \* st.session_state.cached_text: <<>> when the key is absent
    cached_summary,   \* st.session_state.cached_summary: <<>> when the key is absent
    regenerate,       \* st.session_state.regenerate (absent reads as False at line 322)
    selected_diagram, \* st.session_state.selected_diagram: <<>> when the key is absent
    run,              \* the last script run: "none" | "plain" | "submit" | "regenerate"
    request_url,      \* url at line 328 of the last run, <<>> if the run made no request
    calls,            \* the utils calls of the last script run, in order
    displayed         \* what the last script run put on the page, in order

vars == <<raw_code, mermaid_code, pc, lines, idx, fixed_lines, root_found, current_branch,
          classified, repaired, url, url_results, diagram_code, analysis, html_code,
          entry_point, api_key, url_input, script, last_url, cached_text, cached_summary,
          regenerate, selected_diagram, run, request_url, calls, displayed>>

repairVars == <<raw_code, mermaid_code, pc, lines, idx, fixed_lines, root_found,
                current_branch, classified, repaired>>
urlVars == <<url, url_results>>
complexityVars == <<diagram_code, analysis, html_code>>
sessionVars == <<entry_point, api_key, url_input, script, last_url, cached_text,
                 cached_summary, regenerate, selected_diagram, run, request_url,
                 calls, displayed>>

-----------------------------------------------------------------------------
(* Python str operations on sequences of characters.                        *)

\* The backtick character (a TLA+ string cannot hold one).
BT == "BACKTICK"

\* str.strip() with no argument removes these (ASCII) whitespace characters.
Whitespace == {" ", "\t", "\n", "\r"}

SetMin(S) == CHOOSE x \in S : \A y \in S : x <= y
SetMax(S) == CHOOSE x \in S : \A y \in S : x >= y

\* s.startswith(p)
StartsWith(s, p) == Len(s) >= Len(p) /\ SubSeq(s, 1, Len(p)) = p

\* s.endswith(p)
EndsWith(s, p) == Len(s) >= Len(p) /\ SubSeq(s, Len(s) - Len(p) + 1, Len(s)) = p

\* p in s
Contains(s, p) == \E i \in 1..(Len(s) - Len(p) + 1) : SubSeq(s, i, i + Len(p) - 1) = p

\* s.strip(chars): drop leading and trailing characters that are in cs.
StripChars(s, cs) ==
    IF \A i \in 1..Len(s) : s[i] \in cs THEN <<>>
    ELSE LET first == CHOOSE i \in 1..Len(s) :
                          s[i] \notin cs /\ \A j \in 1..(i - 1) : s[j] \in cs
             last == CHOOSE i \in 1..Len(s) :
                          s[i] \notin cs /\ \A j \in (i + 1)..Len(s) : s[j] \in cs
         IN  SubSeq(s, first, last)

\* s.strip()
Strip(s) == StripChars(s, Whitespace)

\* s.lstrip()
LStrip(s) ==
    IF \A i \in 1..Len(s) : s[i] \in Whitespace THEN <<>>
    ELSE LET first == CHOOSE i \in 1..Len(s) :
                          s[i] \notin Whitespace /\ \A j \in 1..(i - 1) : s[j] \in Whitespace
         IN  SubSeq(s, first, Len(s))

\* s.split(sep) for a one-character separator: always at least one piece.
Split(s, sep) ==
    LET cuts == {i \in 1..Len(s) : s[i] = sep}
        n == Cardinality(cuts)
        \* the k-th cut position, with 0 before the first and Len(s)+1 after the last
        cut[k \in 0..(n + 1)] ==
            IF k = 0 THEN 0
            ELSE IF k = n + 1 THEN Len(s) + 1
            ELSE CHOOSE i \in cuts : Cardinality({j \in cuts : j < i}) = k - 1
    IN  [k \in 1..(n + 1) |-> SubSeq(s, cut[k - 1] + 1, cut[k] - 1)]

\* sep.join(parts) for a one-character separator
RECURSIVE Join(_, _)
Join(parts, sep) ==
    IF parts = <<>> THEN <<>>
    ELSE IF Len(parts) = 1 THEN parts[1]
    ELSE parts[1] \o <<sep>> \o Join(Tail(parts), sep)

\* s.replace(old, ""): leftmost non-overlapping occurrences of old are removed.
\* The scan resumes at position from, after the occurrence it has just removed.
RECURSIVE RemoveFrom(_, _, _)
RemoveFrom(s, old, from) ==
    LET hits == {i \in from..(Len(s) - Len(old) + 1) : SubSeq(s, i, i + Len(old) - 1) = old}
    IN  IF hits = {} THEN SubSeq(s, from, Len(s))
        ELSE SubSeq(s, from, SetMin(hits) - 1) \o RemoveFrom(s, old, SetMin(hits) + Len(old))

Remove(s, old) == RemoveFrom(s, old, 1)

\* concatenation of a sequence of strings
RECURSIVE Concat(_)
Concat(parts) == IF parts = <<>> THEN <<>> ELSE parts[1] \o Concat(Tail(parts))

UpperCase == <<"A","B","C","D","E","F","G","H","I","J","K","L","M",
               "N","O","P","Q","R","S","T","U","V","W","X","Y","Z">>
LowerCase == <<"a","b","c","d","e","f","g","h","i","j","k","l","m",
               "n","o","p","q","r","s","t","u","v","w","x","y","z">>
Digits == <<"0","1","2","3","4","5","6","7","8","9">>

IsUpper(c) == \E i \in 1..26 : UpperCase[i] = c
IsDigit(c) == \E i \in 1..10 : Digits[i] = c

\* s.lower()
Lower(s) ==
    [i \in 1..Len(s) |->
        IF IsUpper(s[i]) THEN LowerCase[CHOOSE k \in 1..26 : UpperCase[k] = s[i]]
        ELSE s[i]]

-----------------------------------------------------------------------------
(* normalize_url                                                            *)

http_scheme == <<"h","t","t","p",":","/","/">>
https_scheme == <<"h","t","t","p","s",":","/","/">>
www_prefix == <<"w","w","w",".">>

\* as HasProtocol, testing for one scheme only
HasProtocol_HttpOnly(u) == StartsWith(u, http_scheme)

\* url.startswith(('http://', 'https://'))
HasProtocol(u) == StartsWith(u, http_scheme) \/ StartsWith(u, https_scheme)

\* as normalize_url, defaulting to the http scheme
normalize_url_HttpDefault(u) ==
    LET s == Strip(u)
    IN  IF s = <<>> THEN s
        ELSE IF HasProtocol(s) THEN s
        ELSE IF StartsWith(s, www_prefix) THEN https_scheme \o s
        ELSE http_scheme \o s

normalize_url(u) ==
    LET s == Strip(u)
    IN  IF s = <<>> THEN s
        ELSE IF HasProtocol(s) THEN s
        ELSE IF StartsWith(s, www_prefix) THEN https_scheme \o s
        ELSE https_scheme \o s

\* The pieces the url inputs are assembled from: whitespace, the schemes the
\* function looks for, near misses of them, and host text.
UrlParts ==
    { <<" ">>, <<"\t">>, <<"\n">>,
      http_scheme, https_scheme, www_prefix,
      <<"f","t","p",":","/","/">>,
      <<"H","T","T","P",":","/","/">>,
      <<"h","t","t","p">>,
      <<"a",".","c","o">>,
      <<"/">> }

MaxUrlParts == 3

UrlInputs ==
    UNION { { Concat(ps) : ps \in [1..n -> UrlParts] } : n \in 0..MaxUrlParts }

IdleRepair ==
    /\ raw_code = <<>>
    /\ mermaid_code = <<>>
    /\ pc = "idle"
    /\ lines = <<>>
    /\ idx = 0
    /\ fixed_lines = <<>>
    /\ root_found = FALSE
    /\ current_branch = <<>>
    /\ classified = <<>>
    /\ repaired = <<>>

IdleUrl ==
    /\ url = <<>>
    /\ url_results = <<>>

IdleComplexity ==
    /\ diagram_code = <<>>
    /\ analysis = <<>>
    /\ html_code = <<>>

IdleSession ==
    /\ entry_point = "none"
    /\ api_key = <<>>
    /\ url_input = <<>>
    /\ script = "waiting"
    /\ last_url = <<>>
    /\ cached_text = <<>>
    /\ cached_summary = <<>>
    /\ regenerate = FALSE
    /\ selected_diagram = <<>>
    /\ run = "none"
    /\ request_url = <<>>
    /\ calls = <<>>
    /\ displayed = <<>>

InitUrl ==
    /\ url \in UrlInputs
    /\ url_results = <<>>
    /\ IdleRepair
    /\ IdleComplexity
    /\ IdleSession

\* normalize_url(url), the call of main.py line 333
NormalizeUrl ==
    /\ url_results = <<>>
    /\ url_results' = <<normalize_url(url)>>
    /\ UNCHANGED <<url, repairVars, complexityVars, sessionVars>>

\* normalize_url applied to the value an earlier call returned
NormalizeAgain ==
    /\ Len(url_results) = 1
    /\ url_results' = Append(url_results, normalize_url(url_results[1]))
    /\ UNCHANGED <<url, repairVars, complexityVars, sessionVars>>

NextUrl == NormalizeUrl \/ NormalizeAgain

SpecUrl == InitUrl /\ [][NextUrl]_vars

\* C9 as stated: every non-empty input that starts with neither scheme nor
\* with 'www.' is returned as 'https://' followed by the input as given.
C9_AsStated ==
    (/\ Len(url_results) >= 1
     /\ url # <<>>
     /\ ~HasProtocol(url)
     /\ ~StartsWith(url, www_prefix))
    => url_results[1] = https_scheme \o url

\* the input without its leading and trailing whitespace
C9_Trimmed ==
    IF \A i \in 1..Len(url) : url[i] \in {" ", "\t", "\n", "\r"} THEN <<>>
    ELSE SubSeq(url,
                CHOOSE i \in 1..Len(url) :
                    /\ url[i] \notin {" ", "\t", "\n", "\r"}
                    /\ \A j \in 1..(i - 1) : url[j] \in {" ", "\t", "\n", "\r"},
                CHOOSE i \in 1..Len(url) :
                    /\ url[i] \notin {" ", "\t", "\n", "\r"}
                    /\ \A j \in (i + 1)..Len(url) : url[j] \in {" ", "\t", "\n", "\r"})

\* C9 amended: every input whose whitespace-trimmed form is non-empty and
\* starts with neither scheme nor with 'www.' is returned as 'https://'
\* followed by the trimmed form; an input of whitespace only is returned as
\* the empty string.
C9_PrefixesTrimmedInput ==
    Len(url_results) >= 1 =>
        /\ (/\ C9_Trimmed # <<>>
            /\ ~HasProtocol(C9_Trimmed)
            /\ ~StartsWith(C9_Trimmed, www_prefix))
           => url_results[1] = https_scheme \o C9_Trimmed
        /\ C9_Trimmed = <<>> => url_results[1] = <<>>

\* an input with surrounding whitespace and no scheme has been normalised
C9_Witness ==
    /\ Len(url_results) >= 1
    /\ url # Strip(url)
    /\ Strip(url) # <<>>
    /\ ~HasProtocol(Strip(url))
    /\ ~StartsWith(Strip(url), www_prefix)
    /\ url_results[1] = https_scheme \o Strip(url)

\* C10: normalize_url is idempotent: applied to its own result it returns
\* that result unchanged.
C10_Idempotent ==
    Len(url_results) = 2 => url_results[2] = url_results[1]

\* the second call has been made on a result that the first call changed by
\* both trimming and prefixing
C10_Witness ==
    /\ Len(url_results) = 2
    /\ url_results[1] # url
    /\ url # Strip(url)
    /\ ~HasProtocol(Strip(url))
    /\ Strip(url) # <<>>

-----------------------------------------------------------------------------
(* validate_and_fix_mermaid                                                 *)

mindmap_keyword == <<"m","i","n","d","m","a","p">>
fence_mermaid == <<BT,BT,BT,"m","e","r","m","a","i","d">>
fence == <<BT,BT,BT>>
paren_fence == <<"(",BT,BT,BT,")">>
icon_prefix == <<":",":","i","c","o","n","(">>
root_prefix == <<" "," ","r","o","o","t","(">>
branch_indent == <<" "," "," "," ">>
sub_indent == <<" "," "," "," "," "," ">>

main_branch_keywords ==
    { <<"m","a","r","k","e","t","i","n","g">>,
      <<"s","t","r","a","t","e","g","y">>,
      <<"c","o","n","t","e","n","t">>,
      <<"a","d","v","e","r","t","i","s","i","n","g">>,
      <<"a","u","t","o","m","a","t","i","o","n">>,
      <<"a","n","a","l","y","t","i","c","s">>,
      <<"c","r","e","a","t","i","o","n">>,
      <<"s","e","a","r","c","h">>,
      <<"s","o","c","i","a","l">> }

\* the literal returned at lines 366-373
FallbackSkeleton ==
    <<"m","i","n","d","m","a","p","\n"," "," ","r","o","o","t","(","A","r","t","i","c","l","e"," ","C","o","n","t","e","n","t",")","\n"," "," "," "," ","(","M","a","i","n"," ","T","o","p","i","c","s",")","\n"," "," "," "," "," "," ","(","K","e","y"," ","P","o","i","n","t"," ","1",")","\n"," "," "," "," "," "," ","(","K","e","y"," ","P","o","i","n","t"," ","2",")","\n"," "," "," "," ","(","D","e","t","a","i","l","s",")","\n"," "," "," "," "," "," ","(","I","m","p","o","r","t","a","n","t"," ","I","n","f","o",")","\n"," "," "," "," "," "," ","(","S","u","p","p","o","r","t","i","n","g"," ","F","a","c","t","s",")">>

\* line 356: a main branch is emitted only while fewer than this many exist
MaxMainBranches == 4

\* line 365: fewer fixed lines than this and the fallback is returned
MinStructureLines == 3

\* as StripFences, with the second replace call left out
StripFences_OnlyMermaid(code) == Strip(Remove(code, fence_mermaid))

\* line 314: both replace calls (fence_mermaid first, then fence), then strip()
StripFences(code) == Strip(Remove(Remove(code, fence_mermaid), fence))

\* lines 333 and 347: the line starts with ( and ends with )
IsParenthesized(line) == StartsWith(line, <<"(">>) /\ EndsWith(line, <<")">>)

\* lines 335 and 348: line.strip of the two parenthesis characters
NodeContent(line) == StripChars(line, {"(", ")"})

\* as IsMainBranch, the content being a keyword instead of containing one
IsMainBranch_WholeContent(content) == Lower(content) \in main_branch_keywords

\* as IsMainBranch, without lower(): the match is case-sensitive
IsMainBranch_CaseSensitive(content) == \E k \in main_branch_keywords : Contains(content, k)

\* line 354: any(keyword in content.lower() for keyword in main_branch_keywords)
IsMainBranch(content) == \E k \in main_branch_keywords : Contains(Lower(content), k)

\* as BranchCount, counting lines at the sub-item indent instead
BranchCount_WrongIndent(fl) ==
    Cardinality({i \in 1..Len(fl) : StartsWith(fl[i], sub_indent \o <<"(">>)})

\* line 356: len([l for l in fixed_lines if l.startswith('    (')])
BranchCount(fl) ==
    Cardinality({i \in 1..Len(fl) : StartsWith(fl[i], branch_indent \o <<"(">>)})

\* line 342: the truth value of current_branch (None and '' are false)
\* as Truthy, taking the empty string for a value
Truthy_NotNone(cb) == cb # <<>>

Truthy(cb) == cb # <<>> /\ cb[1] # <<>>

\* as Classify, with the current_branch test of line 342 left out
Classify_IconAlwaysKept(rawline, rf, cb, fl) ==
    LET line == Strip(rawline)
    IN  IF line = <<>> \/ line = mindmap_keyword THEN "skipped"
        ELSE IF line = paren_fence \/ Contains(line, fence) THEN "fence"
        ELSE IF ~rf /\ IsParenthesized(line) THEN "root"
        ELSE IF StartsWith(line, icon_prefix) THEN "icon"
        ELSE IF IsParenthesized(line)
             THEN (IF IsMainBranch(NodeContent(line)) /\ BranchCount(fl) < MaxMainBranches
                   THEN "branch" ELSE "sub_item")
        ELSE "ignored"

\* as Classify, with the root_found test of line 333 left out
Classify_NoRootFound(rawline, rf, cb, fl) ==
    LET line == Strip(rawline)
    IN  IF line = <<>> \/ line = mindmap_keyword THEN "skipped"
        ELSE IF line = paren_fence \/ Contains(line, fence) THEN "fence"
        ELSE IF IsParenthesized(line) THEN "root"
        ELSE IF StartsWith(line, icon_prefix)
             THEN (IF Truthy(cb) THEN "icon" ELSE "icon_dropped")
        ELSE "ignored"

\* What one pass of the loop body (lines 322-362) does with a line, given the
\* loop's state: the name of the branch of the code that handles it.
Classify(rawline, rf, cb, fl) ==
    LET line == Strip(rawline)
    IN  IF line = <<>> \/ line = mindmap_keyword THEN "skipped"
        ELSE IF line = paren_fence \/ Contains(line, fence) THEN "fence"
        ELSE IF ~rf /\ IsParenthesized(line) THEN "root"
        ELSE IF StartsWith(line, icon_prefix)
             THEN (IF Truthy(cb) THEN "icon" ELSE "icon_dropped")
        ELSE IF IsParenthesized(line)
             THEN (IF IsMainBranch(NodeContent(line)) /\ BranchCount(fl) < MaxMainBranches
                   THEN "branch" ELSE "sub_item")
        ELSE "ignored"

\* as Emitted, the root built from the line with its parentheses left on
Emitted_RootKeepsParentheses(rawline, kind) ==
    LET line == Strip(rawline)
    IN  CASE kind = "root" -> root_prefix \o line \o <<")">>
          [] kind = "icon" -> sub_indent \o line
          [] kind = "branch" -> branch_indent \o <<"(">> \o NodeContent(line) \o <<")">>
          [] kind = "sub_item" -> sub_indent \o <<"(">> \o NodeContent(line) \o <<")">>

\* The line the loop body appends to fixed_lines for a line it keeps.
Emitted(rawline, kind) ==
    LET line == Strip(rawline)
    IN  CASE kind = "root" -> root_prefix \o NodeContent(line) \o <<")">>
          [] kind = "icon" -> sub_indent \o line
          [] kind = "branch" -> branch_indent \o <<"(">> \o NodeContent(line) \o <<")">>
          [] kind = "sub_item" -> sub_indent \o <<"(">> \o NodeContent(line) \o <<")">>

\* as Keeps, with the nested items dropped
Keeps_NoSubItems(kind) == kind \in {"root", "icon", "branch"}

Keeps(kind) == kind \in {"root", "icon", "branch", "sub_item"}

\* as Returned, with the threshold off by one
Returned_OffByOne(fl) ==
    IF Len(fl) < MinStructureLines - 1 THEN FallbackSkeleton ELSE Join(fl, "\n")

\* as Returned, asking for one structural line more
Returned_FallbackBelowFour(fl) ==
    IF Len(fl) < MinStructureLines + 1 THEN FallbackSkeleton ELSE Join(fl, "\n")

\* as Returned, joining only what the loop appended (the declaration is lost)
Returned_NoDeclaration(fl) ==
    IF Len(fl) < MinStructureLines THEN FallbackSkeleton ELSE Join(Tail(fl), "\n")

\* lines 365-375: the value returned for the fixed lines the loop built
Returned(fl) ==
    IF Len(fl) < MinStructureLines THEN FallbackSkeleton ELSE Join(fl, "\n")

\* --- inputs ---

\* lines an LLM answer is assembled from, short texts
RepairLines ==
    { <<"m","i","n","d","m","a","p">>,
      <<"(","M","a","r","k","e","t","i","n","g"," ","S","t","r","a","t","e","g","y",")">>,
      <<" "," ","(","K","e","y"," ","P","o","i","n","t",")"," "," ">>,
      <<":",":","i","c","o","n","(","f","a"," ","f","a","-","b","o","o","k",")">>,
      <<BT,BT,BT,"m","e","r","m","a","i","d">>,
      <<BT,BT,BT>>,
      <<>>,
      <<"f","r","e","e"," ","t","e","x","t">>,
      <<"(","a",BT,BT,BT,"b",")">>,
      <<"(","(","S","o","c","i","a","l",")",")">> }

\* lines of the longer texts: a keyword node and a plain node
LongLines ==
    { <<"(","A","n","a","l","y","t","i","c","s"," ","T","o","o","l","s",")">>,
      <<"(","D","e","t","a","i","l","s",")">> }

\* pieces of the shortest texts, taken character by character
RepairAtoms ==
    { <<BT>>,
      <<"(">>,
      <<")">>,
      <<"\n">>,
      <<"a">>,
      <<" ">>,
      <<"m","e","r","m","a","i","d">> }

\* the end-to-end scenario of the specification, section 8
ScenarioText ==
    <<"m","i","n","d","m","a","p","\n","(","M","a","r","k","e","t","i","n","g"," ","S","t","r","a","t","e","g","y",")","\n","(","C","o","n","t","e","n","t"," ","C","r","e","a","t","i","o","n",")","\n","(","A","n","a","l","y","t","i","c","s"," ","T","o","o","l","s",")","\n","(","S","e","a","r","c","h"," ","O","p","t","i","m","i","z","a","t","i","o","n",")">>

\* the format the generation prompt prescribes (lines 105-114)
PromptFormatText ==
    <<"m","i","n","d","m","a","p","\n"," "," ","r","o","o","t","(","M","a","i","n"," ","T","o","p","i","c",")","\n"," "," "," "," ","(","B","r","a","n","c","h"," ","1",")","\n"," "," "," "," "," "," ",":",":","i","c","o","n","(","f","a"," ","f","a","-","l","i","g","h","t","b","u","l","b",")","\n"," "," "," "," "," "," ","(","S","u","b"," ","I","t","e","m"," ","A",")","\n"," "," "," "," "," "," ","(","S","u","b"," ","I","t","e","m"," ","B",")","\n"," "," "," "," ","(","B","r","a","n","c","h"," ","2",")","\n"," "," "," "," "," "," ",":",":","i","c","o","n","(","f","a"," ","f","a","-","c","o","g","s",")","\n"," "," "," "," "," "," ","(","S","u","b"," ","I","t","e","m"," ","C",")","\n"," "," "," "," "," "," ","(","S","u","b"," ","I","t","e","m"," ","D",")">>

\* further texts: fences inside parentheses and in long runs, a fence that
\* appears only once the first replace has run, a fence inside the keyword,
\* the prompt's root(...) form, upper-case keywords, CRLF line ends, empty
\* nodes, icon lines before and after a branch, a fence glued to a node
EdgeTexts ==
    { <<"(",BT,BT,BT,")">>,
      <<BT,BT,BT,BT,BT>>,
      <<BT,BT,BT,BT,BT,"m","e","r","m","a","i","d",BT>>,
      <<"m","i","n","d",BT,BT,BT,"m","a","p","\n","(","a",")","\n","(","b",")">>,
      <<"r","o","o","t","(","T","o","p","i","c",")","\n","(","A","u","t","o","m","a","t","i","o","n",")","\n","(","b",")">>,
      <<"(","A","d","v","e","r","t","i","s","i","n","g",")","\n","(","A"," ","S","E","A","R","C","H",")","\n",":",":","i","c","o","n","(","f","a"," ","f","a","-","x",")","\n","(","c",")">>,
      <<"(","a",")","\r","\n","(","b",")","\r","\n","(","c",")">>,
      <<"(",")","\n","(",")","\n","(",")">>,
      <<":",":","i","c","o","n","(","f","a"," ","f","a","-","a",")","\n","(","T","o","p","i","c",")","\n"," ",":",":","i","c","o","n","(","f","a"," ","f","a","-","b",")","\n","(","S","o","c","i","a","l"," ","M","e","d","i","a",")","\n"," "," "," "," ",":",":","i","c","o","n","(","f","a"," ","f","a","-","c",")"," "," ","\n","(","D","e","t","a","i","l","s",")">>,
      <<BT,BT,BT>> \o <<"(","T","o","p","i","c",")","\n","(","b",")">> }

MaxShortLines == 3
MaxLongLines == 7
MaxAtoms == 4

TextsOf(catalogue, maxLines) ==
    UNION { { Join(ls, "\n") : ls \in [1..n -> catalogue] } : n \in 0..maxLines }

RepairInputs ==
    TextsOf(RepairLines, MaxShortLines)
    \cup TextsOf(LongLines, MaxLongLines)
    \cup UNION { { Concat(ps) : ps \in [1..n -> RepairAtoms] } : n \in 0..MaxAtoms }
    \cup EdgeTexts
    \cup { ScenarioText,
           fence_mermaid \o <<"\n">> \o ScenarioText \o <<"\n">> \o fence,
           PromptFormatText,
           fence \o <<"\n">> \o PromptFormatText \o <<"\n">> \o fence }

InitRepair ==
    /\ raw_code \in RepairInputs
    /\ mermaid_code = raw_code
    /\ pc = "start"
    /\ lines = <<>>
    /\ idx = 0
    /\ fixed_lines = <<>>
    /\ root_found = FALSE
    /\ current_branch = <<>>
    /\ classified = <<>>
    /\ repaired = <<>>
    /\ IdleUrl
    /\ IdleComplexity
    /\ IdleSession

\* lines 313-319: strip the fences, split into lines, initialise the loop
Prepare ==
    /\ pc = "start"
    /\ mermaid_code' = StripFences(mermaid_code)
    /\ lines' = Split(Strip(mermaid_code'), "\n")
    /\ fixed_lines' = <<mindmap_keyword>>
    /\ root_found' = FALSE
    /\ current_branch' = <<>>
    /\ idx' = 1
    /\ pc' = "loop"
    /\ UNCHANGED <<raw_code, classified, repaired, urlVars, complexityVars, sessionVars>>

\* lines 321-362: one pass of the loop body
ProcessLine ==
    /\ pc = "loop"
    /\ idx <= Len(lines)
    /\ LET kind == Classify(lines[idx], root_found, current_branch, fixed_lines)
       IN  /\ classified' = Append(classified, kind)
           /\ fixed_lines' = IF Keeps(kind)
                             THEN Append(fixed_lines, Emitted(lines[idx], kind))
                             ELSE fixed_lines
           /\ root_found' = (root_found \/ kind = "root")
           /\ current_branch' = IF kind = "branch"
                                THEN <<NodeContent(Strip(lines[idx]))>>
                                ELSE current_branch
    /\ idx' = idx + 1
    /\ UNCHANGED <<raw_code, mermaid_code, lines, pc, repaired, urlVars, complexityVars,
                   sessionVars>>

\* lines 364-375: the loop is over, return the fallback or the joined lines
Finish ==
    /\ pc = "loop"
    /\ idx > Len(lines)
    /\ repaired' = <<Returned(fixed_lines)>>
    /\ pc' = "done"
    /\ UNCHANGED <<raw_code, mermaid_code, lines, idx, fixed_lines, root_found,
                   current_branch, classified, urlVars, complexityVars, sessionVars>>

NextRepair == Prepare \/ ProcessLine \/ Finish

SpecRepair == InitRepair /\ [][NextRepair]_vars

-----------------------------------------------------------------------------
(* analyze_diagram_complexity                                               *)

flowchart_keyword == <<"f","l","o","w","c","h","a","r","t">>
timeline_keyword == <<"t","i","m","e","l","i","n","e">>
graph_keyword == <<"g","r","a","p","h">>
comment_prefix == <<"%","%">>
arrow == <<"-","-",">">>
dashes == <<"-","-","-">>

\* what \s matches in the timeline pattern
RegexSpace == {" ", "\t", "\n", "\r"}

\* lines 433-440: the first keyword found anywhere in the text decides the type
DiagramType(code) ==
    IF Contains(code, mindmap_keyword) THEN "mindmap"
    ELSE IF Contains(code, flowchart_keyword) THEN "flowchart"
    ELSE IF Contains(code, timeline_keyword) THEN "timeline"
    ELSE IF Contains(code, graph_keyword) THEN "network"
    ELSE "unknown"

\* line 452: the lines the loop skips
IsBlankOrComment(line) == line = <<>> \/ StartsWith(line, comment_prefix)

\* line 456: (len(line) - len(line.lstrip())) // 2
IndentLevel(line) == (Len(line) - Len(LStrip(line))) \div 2

\* the position of the first c after position i, or 0 when there is none
NextChar(line, c, i) ==
    IF \E j \in (i + 1)..Len(line) : line[j] = c
    THEN CHOOSE j \in (i + 1)..Len(line) :
             line[j] = c /\ \A k \in (i + 1)..(j - 1) : line[k] # c
    ELSE 0

\* the pattern of line 463 matches at i: ( then one or more non-) then )
ParenMatchAt(line, i) == line[i] = "(" /\ NextChar(line, ")", i) > i + 1

\* line 463: findall of the parenthesized pattern, scanning from position from
RECURSIVE ParenMatches(_, _)
ParenMatches(line, from) ==
    LET starts == {i \in from..Len(line) : ParenMatchAt(line, i)}
    IN  IF starts = {} THEN <<>>
        ELSE <<SubSeq(line, SetMin(starts) + 1, NextChar(line, ")", SetMin(starts)) - 1)>>
             \o ParenMatches(line, NextChar(line, ")", SetMin(starts)) + 1)

\* where the opening bracket must stand for an identifier that starts at i:
\* after the digits that follow the letter (\d*), or right after the letter
OpenPos(line, i, withDigits) ==
    IF withDigits
    THEN CHOOSE e \in (i + 1)..(Len(line) + 1) :
             /\ (e = Len(line) + 1 \/ ~IsDigit(line[e]))
             /\ \A k \in (i + 1)..(e - 1) : IsDigit(line[k])
    ELSE i + 1

\* the patterns of lines 471, 472 and 493 match at i: an upper-case letter,
\* digits if allowed, the opening bracket, one or more characters that are
\* not the closing bracket, the closing bracket
LabelledMatchAt(line, i, open, close, withDigits) ==
    /\ IsUpper(line[i])
    /\ OpenPos(line, i, withDigits) <= Len(line)
    /\ line[OpenPos(line, i, withDigits)] = open
    /\ NextChar(line, close, OpenPos(line, i, withDigits)) > OpenPos(line, i, withDigits) + 1

\* lines 471, 472, 493: findall of a labelled-identifier pattern; each match
\* is <<identifier, label>>
RECURSIVE LabelledMatches(_, _, _, _, _)
LabelledMatches(line, from, open, close, withDigits) ==
    LET starts == {i \in from..Len(line) : LabelledMatchAt(line, i, open, close, withDigits)}
    IN  IF starts = {} THEN <<>>
        ELSE LET i == SetMin(starts)
                 e == OpenPos(line, i, withDigits)
                 j == NextChar(line, close, e)
             IN  << <<SubSeq(line, i, e - 1), SubSeq(line, e + 1, j - 1)>> >>
                 \o LabelledMatches(line, j + 1, open, close, withDigits)

\* line 480: the number of --> in the line
ArrowCount(line) ==
    Cardinality({i \in 1..(Len(line) - 2) : SubSeq(line, i, i + 2) = arrow})

\* line 500: findall of (---|-->), scanning from position from
RECURSIVE ConnectorCount(_, _)
ConnectorCount(line, from) ==
    LET starts == {i \in from..(Len(line) - 2) :
                       SubSeq(line, i, i + 2) = dashes \/ SubSeq(line, i, i + 2) = arrow}
    IN  IF starts = {} THEN 0 ELSE 1 + ConnectorCount(line, SetMin(starts) + 3)

\* line 485: findall of ([^:]+):\s*(.+); the second group runs to the end of
\* the line, so there is at most one match: the first run of non-colons that
\* a colon follows, provided something follows the colon
TimelineMatches(line) ==
    IF \A i \in 1..Len(line) : line[i] = ":" THEN <<>>
    ELSE LET i == CHOOSE p \in 1..Len(line) :
                      line[p] # ":" /\ \A q \in 1..(p - 1) : line[q] = ":"
             c == NextChar(line, ":", i)
         IN  IF c = 0 \/ c = Len(line) THEN <<>>
             ELSE LET k == IF \A q \in (c + 1)..Len(line) : line[q] \in RegexSpace
                           THEN Len(line)
                           ELSE CHOOSE q \in (c + 1)..Len(line) :
                                    /\ line[q] \notin RegexSpace
                                    /\ \A r \in (c + 1)..(q - 1) : line[r] \in RegexSpace
                  IN  << <<SubSeq(line, i, c - 1), SubSeq(line, k, Len(line))>> >>

\* lines 461-501: what one line adds: the matches as <<node key, label>> and
\* the connectors counted
LineMatches(type, line) ==
    CASE type = "mindmap" ->
           LET found == ParenMatches(line, 1)
           IN  [k \in 1..Len(found) |-> <<found[k], found[k]>>]
      [] type = "flowchart" ->
           LabelledMatches(line, 1, "[", "]", TRUE) \o LabelledMatches(line, 1, "{", "}", TRUE)
      [] type = "timeline" -> TimelineMatches(line)
      [] type = "network" -> LabelledMatches(line, 1, "[", "]", FALSE)
      [] OTHER -> <<>>

\* as LineEdges, counting the arrows of a text of unknown type too
LineEdges_UnknownCounted(type, line) ==
    CASE type = "flowchart" -> ArrowCount(line)
      [] type = "network" -> ConnectorCount(line, 1)
      [] OTHER -> ArrowCount(line)

LineEdges(type, line) ==
    CASE type = "flowchart" -> ArrowCount(line)
      [] type = "network" -> ConnectorCount(line, 1)
      [] OTHER -> 0

RECURSIVE SumSeq(_)
SumSeq(q) == IF q = <<>> THEN 0 ELSE q[1] + SumSeq(Tail(q))

Max2(a, b) == IF a >= b THEN a ELSE b
Min2(a, b) == IF a <= b THEN a ELSE b

\* lines 513-519: node count contribution, times 2 (it has halves)
NodeTermTimes2(n) ==
    IF n <= 5 THEN 2 * (n * 3)
    ELSE IF n <= 15 THEN 2 * 15 + (n - 5) * 3
    ELSE 2 * 30

\* line 522
DepthTerm(depth) == Min2(depth * 5, 25)

\* lines 525-533: text density contribution for text_density = total / m,
\* times 3m (the last branch is text_density / 3)
DensityTermTimes3m(total, m) ==
    IF total > 50 * m THEN 20 * 3 * m
    ELSE IF total > 25 * m THEN 15 * 3 * m
    ELSE IF total > 15 * m THEN 10 * 3 * m
    ELSE total

\* line 536: min(branching_factor * 10, 15) for branching_factor = e / m, times m
BranchingTermTimesM(e, m) == Min2(e * 10, 15 * m)

\* lines 539-545
TypeBonus(type) ==
    CASE type = "mindmap" -> 5
      [] type = "flowchart" -> 8
      [] type = "timeline" -> 4
      [] type = "network" -> 10
      [] OTHER -> 5

\* as ComplexityScore, with the branching factor not guarded for zero nodes
\* (edges / max(n, 1) whatever n is)
ComplexityScore_Unguarded(type, n, depth, total, e) ==
    LET m == Max2(n, 1)
        times6m == 3 * m * NodeTermTimes2(n)
                   + 6 * m * DepthTerm(depth)
                   + 2 * DensityTermTimes3m(total, m)
                   + 6 * BranchingTermTimesM(e, m)
                   + 6 * m * TypeBonus(type)
    IN  Min2(times6m \div (6 * m), 100)

\* lines 511-547: min(int(complexity_score), 100), the sum taken exactly over
\* the common denominator 6m
ComplexityScore(type, n, depth, total, e) ==
    LET m == Max2(n, 1)
        bf == IF n > 0 THEN e ELSE 0
        times6m == 3 * m * NodeTermTimes2(n)
                   + 6 * m * DepthTerm(depth)
                   + 2 * DensityTermTimes3m(total, m)
                   + 6 * BranchingTermTimesM(bf, m)
                   + 6 * m * TypeBonus(type)
    IN  Min2(times6m \div (6 * m), 100)

\* as BaseHeight, with the second band as high as the third
BaseHeight_SecondBandRaised(score) ==
    IF score <= 20 THEN 1000
    ELSE IF score <= 40 THEN 1000 + 800
    ELSE IF score <= 60 THEN 1000 + 800
    ELSE IF score <= 80 THEN 1000 + 1200
    ELSE 1000 + 1600

\* lines 550-560
BaseHeight(score) ==
    IF score <= 20 THEN 1000
    ELSE IF score <= 40 THEN 1000 + 400
    ELSE IF score <= 60 THEN 1000 + 800
    ELSE IF score <= 80 THEN 1000 + 1200
    ELSE 1000 + 1600

\* line 563
min_height_per_node == 100

\* line 568
MaxHeight == 2500

\* as RecommendedHeight, without the per-node minimum of lines 563-565
RecommendedHeight_NoNodeMinimum(score, n) == Min2(BaseHeight(score), MaxHeight)

\* lines 562-568
RecommendedHeight(score, n) ==
    Min2(Max2(BaseHeight(score), n * min_height_per_node), MaxHeight)

\* The returned dict. text_density and branching_factor are quotients; they
\* are kept as <<numerator, denominator>>.
\* as BranchingFactor, without the test for an empty node set
BranchingFactor_Unguarded(edges, n) == <<edges, Max2(n, 1)>>

\* line 508: edges / max(len(nodes), 1) if len(nodes) > 0 else 0, kept as
\* <<numerator, denominator>>
BranchingFactor(edges, n) == <<IF n > 0 THEN edges ELSE 0, Max2(n, 1)>>

analyze_diagram_complexity(code) ==
    LET type == DiagramType(code)
        raw == Split(Strip(code), "\n")
        stripped == [k \in 1..Len(raw) |-> Strip(raw[k])]
        read == {k \in 1..Len(raw) : ~IsBlankOrComment(stripped[k])}
        matches == [k \in 1..Len(raw) |->
                       IF k \in read THEN LineMatches(type, stripped[k]) ELSE <<>>]
        nodes == UNION { {matches[k][x][1] : x \in 1..Len(matches[k])} : k \in 1..Len(raw) }
        total == SumSeq([k \in 1..Len(raw) |->
                            SumSeq([x \in 1..Len(matches[k]) |-> Len(matches[k][x][2])])])
        edges == SumSeq([k \in 1..Len(raw) |->
                            IF k \in read THEN LineEdges(type, stripped[k]) ELSE 0])
        depth == SetMax({0} \cup {IndentLevel(stripped[k]) : k \in read})
        n == Cardinality(nodes)
        score == ComplexityScore(type, n, depth, total, edges)
    IN  [type |-> type,
         node_count |-> n,
         edge_count |-> edges,
         max_depth |-> depth,
         text_density |-> <<total, Max2(n, 1)>>,
         branching_factor |-> BranchingFactor(edges, n),
         complexity_score |-> score,
         recommended_height |-> RecommendedHeight(score, n)]

\* --- inputs ---

\* first lines: one per diagram type, and none
DiagramHeaders ==
    { <<"m","i","n","d","m","a","p">>,
      <<"f","l","o","w","c","h","a","r","t"," ","T","D">>,
      <<"t","i","m","e","l","i","n","e">>,
      <<"g","r","a","p","h"," ","L","R">>,
      <<>> }

\* lines the short diagram texts are assembled from
DiagramLines ==
    { <<" "," ","r","o","o","t","(","T","o","p","i","c",")">>,
      <<" "," "," "," ","(","B","r","a","n","c","h",")">>,
      <<" "," "," "," "," "," ","(","S","u","b"," ","I","t","e","m",")"," ","(","S","u","b"," ","I","t","e","m",")">>,
      <<"A","[","S","t","a","r","t","]"," ","-","-",">"," ","B","{","C","h","o","i","c","e","}">>,
      <<"B","1","[","g","o","]"," ","-","-",">","|","y","e","s","|"," ","A","[","S","t","a","r","t","]">>,
      <<"A"," ","-","-",">"," ","B">>,
      <<"C","[","E","n","d","]"," ","-","-","-","-"," ","D","[","x","]","-","-",">","E">>,
      <<"2","0","2","0"," ",":"," ","L","a","u","n","c","h">>,
      <<"%","%"," ","(","n","o","t","e",")"," ","A","[","n","]">>,
      <<"(",")">>,
      <<"w","h","e","n",":">>,
      <<"(","s","e","e"," ","f","l","o","w","c","h","a","r","t",")">> }

MaxDiagramLines == 2

\* the decimal digits of i, for 0 <= i <= 99
Dec(i) == IF i < 10 THEN <<Digits[i + 1]>> ELSE <<Digits[(i \div 10) + 1], Digits[(i % 10) + 1]>>

Pad(k) == [j \in 1..k |-> "y"]

Repeat(str, k) == Concat([j \in 1..k |-> str])

\* the i-th line of a generated diagram of the given type: a node with its
\* own key, a label padded to the wanted length, and e connectors
NodeLine(type, i, pad, e) ==
    CASE type = "mindmap" -> <<" "," "," "," ","(">> \o Pad(pad) \o Dec(i) \o <<")">>
      [] type = "flowchart" ->
           <<"N">> \o Dec(i) \o <<"[">> \o Pad(pad) \o <<"x", "]">> \o Repeat(<<" ","-","-",">">>, e)
      [] type = "timeline" -> Dec(i) \o <<" ",":"," ">> \o Pad(pad) \o <<"x">>
      [] type = "network" ->
           <<UpperCase[((i - 1) % 26) + 1]>> \o <<"[">> \o Pad(pad) \o <<"x", "]">>
           \o Repeat(<<" ","-","-","-">>, e)

HeaderOf(type) ==
    CASE type = "mindmap" -> <<"m","i","n","d","m","a","p">>
      [] type = "flowchart" -> <<"f","l","o","w","c","h","a","r","t"," ","T","D">>
      [] type = "timeline" -> <<"t","i","m","e","l","i","n","e">>
      [] type = "network" -> <<"g","r","a","p","h"," ","L","R">>

\* a diagram of n generated lines
GeneratedDiagram(type, n, pad, e) ==
    Join(<<HeaderOf(type)>> \o [i \in 1..n |-> NodeLine(type, i, pad, e)], "\n")

MaxNodes == 27
MaxEdgesPerLine == 2
PadLengths == {0, 15, 30, 51}

ComplexityInputs ==
    { Join(<<h>> \o ls, "\n") :
        h \in DiagramHeaders,
        ls \in UNION { [1..n -> DiagramLines] : n \in 0..MaxDiagramLines } }
    \cup { GeneratedDiagram(type, n, pad, e) :
             type \in {"mindmap", "flowchart", "timeline", "network"},
             n \in 0..MaxNodes, pad \in PadLengths, e \in 0..MaxEdgesPerLine }
    \cup { <<>>, <<" ">>, <<"\n">>, FallbackSkeleton, ScenarioText, PromptFormatText }

InitComplexity ==
    /\ diagram_code \in ComplexityInputs
    /\ analysis = <<>>
    /\ html_code = <<>>
    /\ IdleRepair
    /\ IdleUrl
    /\ IdleSession

\* a call of analyze_diagram_complexity(diagram_code)
AnalyzeDiagram ==
    /\ analysis = <<>>
    /\ analysis' = <<analyze_diagram_complexity(diagram_code)>>
    /\ UNCHANGED <<diagram_code, html_code, repairVars, urlVars, sessionVars>>

NextComplexity == AnalyzeDiagram

SpecComplexity == InitComplexity /\ [][NextComplexity]_vars

-----------------------------------------------------------------------------
(* The pure fold of the repair loop, for callers of validate_and_fix_mermaid *)

\* lines 321-362: the loop from line i on, returning fixed_lines
RECURSIVE RepairLoop(_, _, _, _, _)
RepairLoop(ls, i, fl, rf, cb) ==
    IF i > Len(ls) THEN fl
    ELSE LET kind == Classify(ls[i], rf, cb, fl)
         IN  RepairLoop(ls, i + 1,
                        IF Keeps(kind) THEN Append(fl, Emitted(ls[i], kind)) ELSE fl,
                        rf \/ kind = "root",
                        IF kind = "branch" THEN <<NodeContent(Strip(ls[i]))>> ELSE cb)

\* utils.py 303-375 as a function of its argument
validate_and_fix_mermaid(code) ==
    Returned(RepairLoop(Split(Strip(StripFences(code)), "\n"), 1,
                        <<mindmap_keyword>>, FALSE, <<>>))

-----------------------------------------------------------------------------
(* scrape_text and the generation functions, as functions of what the web   *)
(* server or the LLM service answers                                        *)

error_prefix == <<"E","r","r","o","r">>
failed_prefix == <<"F","a","i","l","e","d">>
scrape_failed_message == <<"F","a","i","l","e","d"," ","t","o"," ","s","c","r","a","p","e"," ","w","e","b","s","i","t","e","."," ","S","t","a","t","u","s"," ","c","o","d","e",":"," ">>
scrape_error_message == <<"E","r","r","o","r"," ","s","c","r","a","p","i","n","g"," ","w","e","b","s","i","t","e",":"," ">>
summary_error_message == <<"E","r","r","o","r"," ","g","e","n","e","r","a","t","i","n","g"," ","s","u","m","m","a","r","y",":"," ">>
generation_error_message == <<"E","r","r","o","r"," ","g","e","n","e","r","a","t","i","n","g"," ">>

\* str(n) for a natural number
RECURSIVE Decimal(_)
Decimal(n) == IF n < 10 THEN <<Digits[n + 1]>> ELSE Decimal(n \div 10) \o <<Digits[(n % 10) + 1]>>

\* s.split(sep) for a separator of any length, scanning from position from
RECURSIVE SplitFrom(_, _, _)
SplitFrom(s, sep, from) ==
    LET hits == {i \in from..(Len(s) - Len(sep) + 1) : SubSeq(s, i, i + Len(sep) - 1) = sep}
    IN  IF hits = {} THEN <<SubSeq(s, from, Len(s))>>
        ELSE <<SubSeq(s, from, SetMin(hits) - 1)>> \o SplitFrom(s, sep, SetMin(hits) + Len(sep))

\* lines 32-33: the stripped phrases of the stripped lines, in order.  The page
\* texts of the model end their lines with \n only, so split stands for splitlines.
RECURSIVE Chunks(_)
Chunks(ls) ==
    IF ls = <<>> THEN <<>>
    ELSE LET phrases == SplitFrom(Strip(ls[1]), <<" ", " ">>, 1)
         IN  [k \in 1..Len(phrases) |-> Strip(phrases[k])] \o Chunks(Tail(ls))

IsChunk(c) == c # <<>>

\* lines 31-34: the text of the page, cleaned up
CleanText(page_text) == Join(SelectSeq(Chunks(Split(page_text, "\n")), IsChunk), " ")

\* as scrape_text, with the bare message of the exception
scrape_text_BareMessage(response) ==
    IF response.raised THEN response.message
    ELSE IF response.status_code = 200 THEN CleanText(response.page_text)
    ELSE scrape_failed_message \o Decimal(response.status_code)

\* utils.py 7-41.  response is what requests.get did: it raised (message is
\* str(e)) or it returned status_code and a body whose text is page_text.
scrape_text(response) ==
    IF response.raised THEN scrape_error_message \o response.message
    ELSE IF response.status_code = 200 THEN CleanText(response.page_text)
    ELSE scrape_failed_message \o Decimal(response.status_code)

\* utils.py 64-78.  reply is what client.messages.create did: it raised or it
\* returned a message whose text is reply.text.
summarize_with_claude(reply) ==
    IF reply.raised THEN summary_error_message \o reply.message ELSE reply.text

DiagramTypes == {"mindmap", "flowchart", "timeline", "network"}

\* the artifact name in the failure string of each generation function
ArtifactName(type) ==
    CASE type = "mindmap" -> <<"m","i","n","d","m","a","p">>
      [] type = "flowchart" -> <<"f","l","o","w","c","h","a","r","t">>
      [] type = "timeline" -> <<"t","i","m","e","l","i","n","e">>
      [] type = "network" -> <<"n","e","t","w","o","r","k">>

\* utils.py 126-140, 180-194, 234-248, 287-301
generate_with_claude(type, reply) ==
    IF reply.raised THEN Concat(<<generation_error_message, ArtifactName(type), <<":", " ">>, reply.message>>)
    ELSE Strip(reply.text)

\* text.startswith("Error") or text.startswith("Failed") (main.py 352)
LooksFailed(text) == StartsWith(text, error_prefix) \/ StartsWith(text, failed_prefix)

\* --- what the web and the LLM service can answer ---

\* the text of the page at a url, as soup.get_text() gives it
PageText(u) == Concat(<<<<" "," ","T","e","x","t"," "," ","o","f"," ">>, <<"\n", " ">>, u, <<" ", "\n">>>>)

\* what scrape_text returns for that page
TextOf(u) == <<"T","e","x","t"," ","o","f"," ">> \o u

\* the text of a page that is about error codes
ErrorPageText == <<"E","r","r","o","r"," ","c","o","d","e","s","\n"," "," ","e","x","p","l","a","i","n","e","d"," ","\n">>

\* the server answers with the page of the url or with a page about error
\* codes, or with status 404, or the request times out
Responses(u) ==
    { [raised |-> FALSE, status_code |-> 200, page_text |-> PageText(u), message |-> <<>>],
      [raised |-> FALSE, status_code |-> 200, page_text |-> ErrorPageText, message |-> <<>>],
      [raised |-> FALSE, status_code |-> 404, page_text |-> <<>>, message |-> <<>>],
      [raised |-> TRUE, status_code |-> 0, page_text |-> <<>>, message |-> <<"t","i","m","e","d"," ","o","u","t">>] }

\* the service answers with a summary of the text it was given, or fails
SummaryReplies(text) ==
    { [raised |-> FALSE, text |-> <<"S","u","m","m","a","r","y"," ","o","f"," ">> \o text, message |-> <<>>],
      [raised |-> TRUE, text |-> <<>>, message |-> <<"o","v","e","r","l","o","a","d","e","d">>] }

FlowchartText == <<"f","l","o","w","c","h","a","r","t"," ","T","D","\n","A"," ","-","-",">"," ","B">>
TimelineText == <<"t","i","m","e","l","i","n","e","\n","1","9","9","0"," ",":"," ","S","t","a","r","t">>
NetworkText == <<"g","r","a","p","h"," ","L","R","\n","A"," ","-","-","-"," ","B">>

\* the service answers with a diagram of the type asked for (the mindmap in
\* the format its prompt prescribes, with trailing whitespace), or fails
DiagramReplies(type) ==
    { [raised |-> FALSE,
       text |-> (CASE type = "mindmap" -> PromptFormatText \o <<"\n">>
                   [] type = "flowchart" -> FlowchartText
                   [] type = "timeline" -> TimelineText
                   [] type = "network" -> NetworkText),
       message |-> <<>>],
      [raised |-> TRUE, text |-> <<>>, message |-> <<"o","v","e","r","l","o","a","d","e","d">>] }

-----------------------------------------------------------------------------
(* One browser session of an entry point.  Each user interaction makes the  *)
(* script run once from the top; st.session_state survives between runs.    *)

Call(fn, arg, failed) == [fn |-> fn, arg |-> arg, failed |-> failed]

Shown(kind, content) == [kind |-> kind, content |-> content]

GenerateFn(type) ==
    CASE type = "mindmap" -> "generate_mindmap_with_claude"
      [] type = "flowchart" -> "generate_flowchart_with_claude"
      [] type = "timeline" -> "generate_timeline_with_claude"
      [] type = "network" -> "generate_network_with_claude"

GenerateFns == {GenerateFn(type) : type \in DiagramTypes}

\* requests.get did not answer with status 200
FetchFailed(response) == response.raised \/ response.status_code # 200

\* a placeholder where no request is sent
NoAnswer == [raised |-> FALSE, status_code |-> 0, page_text |-> <<>>, text |-> <<>>, message |-> <<>>]

\* the texts a user types into the url field
UrlTexts == { <<>>, <<" ">>, <<"a",".","c","o","m">>, <<"h","t","t","p","s",":","/","/","b",".","o","r","g">> }

\* the values of the environment variable: unset, empty, set
ApiKeys == { <<>>, << <<>> >>, << <<"s","k","-","1">> >> }

InitSession ==
    /\ entry_point \in {"app", "package"}
    /\ api_key \in ApiKeys
    /\ url_input = <<>>
    /\ script = "waiting"
    /\ last_url = <<>>
    /\ cached_text = <<>>
    /\ cached_summary = <<>>
    /\ regenerate = FALSE
    /\ selected_diagram = <<>>
    /\ run = "none"
    /\ request_url = <<>>
    /\ calls = <<>>
    /\ displayed = <<>>
    /\ IdleRepair
    /\ IdleUrl
    /\ IdleComplexity

\* as CacheMiss, never finding the value usable
CacheMiss_Always(cached, stored_url, u) == TRUE

\* main.py 347, 361, 366: 'cached_x' not in st.session_state or
\* st.session_state.get('last_url') != url
CacheMiss(cached, stored_url, u) == cached = <<>> \/ stored_url # <<u>>

\* main.py 376-408: generation, repair and rendering for text, after the
\* calls and the page items that came before
GenerateAndRender(selected, text, calls_before, displayed_before) ==
    \E reply \in DiagramReplies(selected) :
        LET diagram == generate_with_claude(selected, reply)
            generation == Call(GenerateFn(selected), text, reply.raised)
        IN  IF StartsWith(diagram, error_prefix)
            THEN /\ calls' = calls_before \o <<generation>>
                 /\ displayed' = displayed_before \o <<Shown("generation_error", diagram)>>
            ELSE LET validated_code == IF selected = "mindmap"
                                       THEN validate_and_fix_mermaid(diagram)
                                       ELSE diagram
                 IN  /\ calls' = calls_before \o <<generation>>
                                 \o (IF selected = "mindmap"
                                     THEN <<Call("validate_and_fix_mermaid", diagram, FALSE)>>
                                     ELSE <<>>)
                                 \o <<Call("create_mermaid_html", validated_code, FALSE)>>
                     /\ displayed' = displayed_before
                                     \o << Shown("diagram_code", validated_code),
                                           Shown("html", validated_code),
                                           Shown("change_section", ArtifactName(selected)) >>

\* main.py 365-374, then 376-408: the summary for text, after the fetch
SummarizeAndShow(selected, u, text, calls_before, displayed_before) ==
    \* line 366; line 330 has stored u in last_url
    LET summarizes == CacheMiss(cached_summary, <<u>>, u)
    IN  \E reply \in (IF summarizes THEN SummaryReplies(text) ELSE {NoAnswer}) :
            LET summary == IF summarizes THEN summarize_with_claude(reply) ELSE cached_summary[1]
            IN  /\ cached_summary' = <<summary>>
                /\ GenerateAndRender(selected, text,
                       calls_before \o (IF summarizes
                                        THEN <<Call("summarize_with_claude", text, reply.raised)>>
                                        ELSE <<>>),
                       displayed_before \o <<Shown("summary", summary)>>)

\* main.py 283-416: one run of show_main_page with url_widget in the text
\* field and form_submitted telling whether the form button was pressed
ShowMainPage(url_widget, form_submitted) ==
    LET gallery_shown == url_widget # <<>> /\ Strip(url_widget) # <<>>       \* line 305
        gallery == IF gallery_shown /\ selected_diagram = <<>>                \* 105-106
                   THEN <<"mindmap">> ELSE selected_diagram
        regen == regenerate                                                   \* line 322
        submitted == IF regen THEN TRUE ELSE gallery_shown /\ form_submitted
        u == IF regen THEN (IF last_url = <<>> THEN <<>> ELSE last_url[1])    \* line 324
             ELSE url_widget
        selected == IF (regen \/ gallery_shown) /\ gallery # <<>>             \* 311, 319, 325
                    THEN gallery[1] ELSE "mindmap"
        requested == submitted /\ u # <<>>                                    \* line 328
        normalized_url == normalize_url(Strip(u))                             \* line 333
        valid == normalized_url # <<>> /\ HasProtocol(normalized_url)         \* line 336
        \* line 347, evaluated after line 330 has stored u in last_url
        fetches == CacheMiss(cached_text, <<u>>, u)
    IN  /\ selected_diagram' = gallery
        /\ regenerate' = IF regen THEN FALSE ELSE regenerate                  \* line 326
        /\ run' = IF ~requested THEN "plain" ELSE IF regen THEN "regenerate" ELSE "submit"
        /\ request_url' = IF requested THEN <<u>> ELSE <<>>
        /\ last_url' = IF requested THEN <<u>> ELSE last_url                  \* line 330
        /\ IF ~requested
           THEN /\ calls' = <<>>
                /\ displayed' = <<>>
                /\ UNCHANGED <<cached_text, cached_summary>>
           ELSE IF ~valid
           THEN /\ calls' = <<>>
                /\ displayed' = <<Shown("url_error", u)>>
                /\ UNCHANGED <<cached_text, cached_summary>>
           ELSE IF ~Truthy(api_key)                                           \* line 342
           THEN /\ calls' = <<>>
                /\ displayed' = <<Shown("config_error", <<>>)>>
                /\ UNCHANGED <<cached_text, cached_summary>>
           ELSE \E response \in (IF fetches THEN Responses(normalized_url) ELSE {NoAnswer}) :
                    LET text == IF fetches THEN scrape_text(response) ELSE cached_text[1]
                        fetch == IF fetches
                                 THEN <<Call("scrape_text", normalized_url, FetchFailed(response))>>
                                 ELSE <<>>
                        \* line 361, evaluated after line 356 has stored the text
                        shows_original == CacheMiss(<<text>>, <<u>>, u)
                    IN  IF fetches /\ LooksFailed(text)                       \* line 352
                        THEN /\ calls' = fetch
                             /\ displayed' = <<Shown("fetch_error", normalized_url)>>
                             /\ UNCHANGED <<cached_text, cached_summary>>
                        ELSE /\ cached_text' = <<text>>                       \* line 356
                             /\ SummarizeAndShow(selected, u, text, fetch,
                                    IF shows_original
                                    THEN <<Shown("original_text", text)>> ELSE <<>>)

\* neurommind_mapper/main.py 77-134: one run of main.  It imports the
\* functions it calls from the utils module of its package; they are given
\* the behaviour of the functions of the same names in src/src/utils.py.
PackageMain(url_widget, form_submitted) ==
    LET requested == form_submitted /\ url_widget # <<>>                      \* line 88
    IN  /\ run' = IF requested THEN "submit" ELSE "plain"
        /\ request_url' = IF requested THEN <<url_widget>> ELSE <<>>
        /\ UNCHANGED <<last_url, cached_text, cached_summary, regenerate, selected_diagram>>
        /\ IF ~requested
           THEN calls' = <<>> /\ displayed' = <<>>
           ELSE IF ~HasProtocol(url_widget)                                   \* line 90
           THEN calls' = <<>> /\ displayed' = <<Shown("url_error", url_widget)>>
           ELSE IF ~Truthy(api_key)                                           \* line 96
           THEN calls' = <<>> /\ displayed' = <<Shown("config_error", <<>>)>>
           ELSE \E response \in Responses(url_widget),
                   mreply \in DiagramReplies("mindmap") :
                    LET text == scrape_text(response)
                        fetch == Call("scrape_text", url_widget, FetchFailed(response))
                    IN  IF LooksFailed(text)                                  \* line 104
                        THEN /\ calls' = <<fetch>>
                             /\ displayed' = <<Shown("fetch_error", text)>>
                        ELSE \E sreply \in SummaryReplies(text) :
                            LET summary == summarize_with_claude(sreply)
                                mindmap_code == generate_with_claude("mindmap", mreply)
                                upto_generation ==
                                    << fetch,
                                       Call("summarize_with_claude", text, sreply.raised),
                                       Call("generate_mindmap_with_claude", text, mreply.raised) >>
                                upto_summary ==
                                    << Shown("original_text", text), Shown("summary", summary) >>
                            IN  IF StartsWith(mindmap_code, error_prefix)     \* line 123
                                THEN /\ calls' = upto_generation
                                     /\ displayed' = Append(upto_summary,
                                                        Shown("generation_error", mindmap_code))
                                ELSE /\ calls' = Append(upto_generation,
                                                   Call("create_mermaid_html", mindmap_code, FALSE))
                                     /\ displayed' = upto_summary
                                                     \o << Shown("diagram_code", mindmap_code),
                                                           Shown("html", mindmap_code) >>

\* one run of the script of the entry point in use
ScriptRun(url_widget, form_submitted) ==
    IF entry_point = "app" THEN ShowMainPage(url_widget, form_submitted)
    ELSE PackageMain(url_widget, form_submitted)

\* the user changes the text of the url field: the script runs, no button pressed
EnterUrl ==
    /\ entry_point \in {"app", "package"}
    /\ script = "waiting"
    /\ \E u \in UrlTexts \ {url_input} :
           /\ url_input' = u
           /\ ScriptRun(u, FALSE)
    /\ UNCHANGED <<entry_point, api_key, script, repairVars, urlVars, complexityVars>>

\* the user presses the form button (main.py 316; neurommind_mapper/main.py 86)
Submit ==
    /\ entry_point \in {"app", "package"}
    /\ script = "waiting"
    /\ entry_point = "app" => (url_input # <<>> /\ Strip(url_input) # <<>>)
    /\ ScriptRun(url_input, TRUE)
    /\ UNCHANGED <<entry_point, api_key, url_input, script, repairVars, urlVars, complexityVars>>

\* main.py 112-145: a button of the gallery stores its type and asks for a rerun
SelectDiagram ==
    /\ entry_point = "app"
    /\ script = "waiting"
    /\ url_input # <<>> /\ Strip(url_input) # <<>>
    /\ \E type \in DiagramTypes : selected_diagram' = <<type>>
    /\ script' = "rerun"
    /\ UNCHANGED <<entry_point, api_key, url_input, last_url, cached_text, cached_summary,
                   regenerate, run, request_url, calls, displayed,
                   repairVars, urlVars, complexityVars>>

\* main.py 157-173: a button of the section shown after a rendering, offered
\* for the types other than the one rendered
TryDifferentType ==
    /\ entry_point = "app"
    /\ script = "waiting"
    /\ \E type \in {"mindmap", "flowchart", "timeline"} :
           /\ \E k \in 1..Len(displayed) :
                  /\ displayed[k].kind = "change_section"
                  /\ displayed[k].content # ArtifactName(type)
           /\ selected_diagram' = <<type>>
    /\ regenerate' = TRUE
    /\ script' = "rerun"
    /\ UNCHANGED <<entry_point, api_key, url_input, last_url, cached_text, cached_summary,
                   run, request_url, calls, displayed, repairVars, urlVars, complexityVars>>

\* the run st.rerun() asked for: no form button is pressed in it
Rerun ==
    /\ script = "rerun"
    /\ ShowMainPage(url_input, FALSE)
    /\ script' = "waiting"
    /\ UNCHANGED <<entry_point, api_key, url_input, repairVars, urlVars, complexityVars>>

NextSession == EnterUrl \/ Submit \/ SelectDiagram \/ TryDifferentType \/ Rerun

SpecSession == InitSession /\ [][NextSession]_vars

-----------------------------------------------------------------------------
(* create_mermaid_html (utils.py 572-1223): the parts of the page that      *)
(* depend on the argument                                                   *)

\* the parts one after the other, halving the sequence of parts
RECURSIVE Flatten(_)
Flatten(parts) ==
    IF parts = <<>> THEN <<>>
    ELSE IF Len(parts) = 1 THEN parts[1]
    ELSE LET half == Len(parts) \div 2
         IN  Flatten(SubSeq(parts, 1, half)) \o Flatten(SubSeq(parts, half + 1, Len(parts)))

\* s.replace(c, r) for a one-character c
ReplaceChar(s, c, r) == Flatten([k \in 1..Len(s) |-> IF s[k] = c THEN r ELSE <<s[k]>>])

\* line 588: the four replacements, in the order of the source
escaped_code(mindmap_code) ==
    ReplaceChar(
        ReplaceChar(
            ReplaceChar(
                ReplaceChar(mindmap_code, BT, <<"\\", BT>>),
                "\\", <<"\\", "\\">>),
            "\"", <<"\\", "\"">>),
        "\n", <<"\\", "n">>)

\* lines 585, 946, 997, 998
create_mermaid_html(mindmap_code) ==
    [container |-> mindmap_code,
     escaped_code |-> escaped_code(mindmap_code),
     complexityAnalysis |-> analyze_diagram_complexity(mindmap_code)]

\* What the browser makes of the page.  The character after a backslash in a
\* JavaScript template literal: n is a line feed, a line end continues the
\* line, and a character that starts no escape sequence stands for itself
\* (the texts of the model hold no other escape letter after a backslash).
Unescape(c) ==
    IF c = "n" THEN <<"\n">>
    ELSE IF c = "\n" THEN <<>>
    ELSE <<c>>

\* the number of backslashes that stand in a row just before position i of e
BackslashRun(e, i) ==
    i - 1 - SetMax({0} \cup {j \in 1..(i - 1) : e[j] # "\\"})

\* the character at position i of e follows a backslash that starts an
\* escape sequence (backslashes pair up from the left)
Escaped(e, i) == BackslashRun(e, i) % 2 = 1

\* the value of the template literal of line 997 whose text after the opening
\* backtick is e: <<value>> if the literal is closed by the backtick that
\* follows e, and <<>> if it is not (a backtick of e closes it early, a ${ of
\* e opens a substitution, or a backslash at the end of e escapes the closing
\* backtick)
TemplateValue(e) ==
    IF \/ \E i \in 1..Len(e) : e[i] = BT /\ ~Escaped(e, i)
       \/ \E i \in 1..(Len(e) - 1) : e[i] = "$" /\ e[i + 1] = "{" /\ ~Escaped(e, i)
       \/ Escaped(e, Len(e) + 1)
    THEN <<>>
    ELSE <<Flatten([i \in 1..Len(e) |->
                      IF Escaped(e, i) THEN Unescape(e[i])
                      ELSE IF e[i] = "\\" THEN <<>>
                      ELSE <<e[i]>>])>>

script_end_tag == <<"<","/","s","c","r","i","p","t">>

\* the value of the constant diagramCode of the page (lines 996-997): none
\* if the script element ends inside the literal
DiagramCode(html) ==
    IF Contains(Lower(html.escaped_code), script_end_tag) THEN <<>>
    ELSE TemplateValue(html.escaped_code)

\* --- inputs ---

\* the characters line 588 replaces, and those that matter to the literal
HtmlChars == {BT, "\\", "\"", "\n", "$", "{", "n"}

MaxHtmlLen == 3

RECURSIVE TextsOver(_, _)
TextsOver(chars, len) ==
    IF len = 0 THEN {<<>>}
    ELSE LET shorter == TextsOver(chars, len - 1)
         IN  shorter \cup {Append(s, c) : s \in shorter, c \in chars}

\* a flowchart as the service answers it, in fences
FencedFlowchartText == <<BT, BT, BT>> \o <<"m","e","r","m","a","i","d","\n">> \o FlowchartText \o <<"\n">> \o <<BT, BT, BT>>

HtmlInputs ==
    TextsOver(HtmlChars, MaxHtmlLen)
    \cup { FlowchartText, TimelineText, NetworkText, FencedFlowchartText,
           FallbackSkeleton, ScenarioText, PromptFormatText,
           <<"A","[","<","/","S","C","R","I","P","T",">","]"," ","-","-",">"," ","B">> }

InitHtml ==
    /\ diagram_code \in HtmlInputs
    /\ analysis = <<>>
    /\ html_code = <<>>
    /\ IdleRepair
    /\ IdleUrl
    /\ IdleSession

\* a call of create_mermaid_html(diagram_code)
CreateMermaidHtml ==
    /\ html_code = <<>>
    /\ analysis' = <<analyze_diagram_complexity(diagram_code)>>
    /\ html_code' = <<create_mermaid_html(diagram_code)>>
    /\ UNCHANGED <<diagram_code, repairVars, urlVars, sessionVars>>

NextHtml == CreateMermaidHtml

SpecHtml == InitHtml /\ [][NextHtml]_vars

-----------------------------------------------------------------------------
(* The functions and the session together.                                  *)

Init == InitRepair \/ InitUrl \/ InitComplexity \/ InitHtml \/ InitSession

Next == NextRepair \/ NextUrl \/ NextComplexity \/ NextHtml \/ NextSession

Spec == Init /\ [][Next]_vars

-----------------------------------------------------------------------------
(* Claims about validate_and_fix_mermaid, checked under SpecRepair.         *)

\* the lines of the returned text
OutLines == Split(repaired[1], "\n")

IsRootLine(l) == StartsWith(l, <<" "," ","r","o","o","t","(">>) /\ EndsWith(l, <<")">>)
IsTopLevelBranchLine(l) == StartsWith(l, <<" "," "," "," ","(">>)
IsNestedLine(l) == StartsWith(l, <<" "," "," "," "," "," ">>)

\* C1: the returned text has the declaration keyword as its first line, on
\* the normal path and on the fallback path.
C1_FirstLineIsDeclaration ==
    pc = "done" => OutLines[1] = <<"m","i","n","d","m","a","p">>

\* a text has been returned on the normal path, from an input that did not
\* itself begin with the declaration
C1_Witness ==
    /\ pc = "done"
    /\ Len(fixed_lines) >= 3
    /\ ~StartsWith(raw_code, <<"m","i","n","d","m","a","p">>)
    /\ OutLines[1] = <<"m","i","n","d","m","a","p">>

\* C2: the returned text holds exactly one root line, and it is the second
\* line, directly after the declaration.
C2_ExactlyOneRootSecond ==
    pc = "done" =>
        /\ Len(OutLines) >= 2
        /\ {i \in 1..Len(OutLines) : IsRootLine(OutLines[i])} = {2}

\* a normal-path return for an input with at least three parenthesized lines
C2_Witness ==
    /\ pc = "done"
    /\ Len(fixed_lines) >= 4
    /\ Cardinality({i \in 1..Len(lines) : IsParenthesized(Strip(lines[i]))}) >= 3
    /\ {i \in 1..Len(OutLines) : IsRootLine(OutLines[i])} = {2}

\* C3: at most 4 top-level branch lines are ever emitted, however many input
\* lines match the keyword list.
C3_AtMostFourBranches ==
    /\ Cardinality({i \in 1..Len(fixed_lines) : IsTopLevelBranchLine(fixed_lines[i])}) <= 4
    /\ pc = "done" =>
         Cardinality({i \in 1..Len(OutLines) : IsTopLevelBranchLine(OutLines[i])}) <= 4

\* more than four keyword lines followed the root, and exactly four of them
\* were returned as top-level branches
C3_Witness ==
    /\ pc = "done"
    /\ Cardinality({i \in 1..Len(lines) :
           IsParenthesized(Strip(lines[i]))
           /\ \E k \in main_branch_keywords : Contains(Lower(lines[i]), k)}) >= 6
    /\ Cardinality({i \in 1..Len(OutLines) : IsTopLevelBranchLine(OutLines[i])}) = 4

\* the fallback of the claim, line by line
C4_Skeleton ==
    Join(<< <<"m","i","n","d","m","a","p">>,
           <<" "," ","r","o","o","t","(","A","r","t","i","c","l","e"," ","C","o","n","t","e","n","t",")">>,
           <<" "," "," "," ","(","M","a","i","n"," ","T","o","p","i","c","s",")">>,
           <<" "," "," "," "," "," ","(","K","e","y"," ","P","o","i","n","t"," ","1",")">>,
           <<" "," "," "," "," "," ","(","K","e","y"," ","P","o","i","n","t"," ","2",")">>,
           <<" "," "," "," ","(","D","e","t","a","i","l","s",")">>,
           <<" "," "," "," "," "," ","(","I","m","p","o","r","t","a","n","t"," ","I","n","f","o",")">>,
           <<" "," "," "," "," "," ","(","S","u","p","p","o","r","t","i","n","g"," ","F","a","c","t","s",")">> >>, "\n")

\* C4: when the repair pass has built fewer than 3 lines, exactly the fixed
\* fallback skeleton is returned.
C4_FallbackExact ==
    (pc = "done" /\ Len(fixed_lines) < 3) => repaired[1] = C4_Skeleton

\* the loop found a root and nothing else, and the skeleton was returned
C4_Witness ==
    /\ pc = "done"
    /\ Len(fixed_lines) = 2
    /\ root_found
    /\ repaired[1] = C4_Skeleton

HasTripleBacktick(str) ==
    \E i \in 1..(Len(str) - 2) : str[i] = BT /\ str[i + 1] = BT /\ str[i + 2] = BT

\* C5: the returned text holds no triple backtick, and once the loop
\* classifies lines, no line it reads holds one.
C5_NoFenceMarkers ==
    /\ pc = "done" => ~HasTripleBacktick(repaired[1])
    /\ pc \in {"loop", "done"} =>
         /\ \A i \in 1..Len(lines) : ~HasTripleBacktick(lines[i])
         /\ \A i \in 1..Len(classified) : classified[i] # "fence"

\* a fenced input was returned on the normal path
C5_Witness ==
    /\ pc = "done"
    /\ HasTripleBacktick(raw_code)
    /\ Len(fixed_lines) >= 3
    /\ ~HasTripleBacktick(repaired[1])

\* C6: the five-line scenario is repaired to root 'Marketing Strategy' with
\* its three remaining lines as top-level branches and no nested item.
C6_Scenario ==
    (pc = "done" /\ raw_code = ScenarioText) =>
        /\ OutLines[2] = <<" "," ","r","o","o","t","(","M","a","r","k","e","t","i","n","g"," ","S","t","r","a","t","e","g","y",")">>
        /\ Cardinality({i \in 1..Len(OutLines) : IsTopLevelBranchLine(OutLines[i])}) <= 4
        /\ \A b \in { <<" "," "," "," ","(","C","o","n","t","e","n","t"," ","C","r","e","a","t","i","o","n",")">>,
                      <<" "," "," "," ","(","A","n","a","l","y","t","i","c","s"," ","T","o","o","l","s",")">>,
                      <<" "," "," "," ","(","S","e","a","r","c","h"," ","O","p","t","i","m","i","z","a","t","i","o","n",")">> } :
               \E i \in 1..Len(OutLines) : OutLines[i] = b
        /\ \A i \in 1..Len(OutLines) : ~IsNestedLine(OutLines[i])

\* the scenario has been repaired: a root and three branches
C6_Witness ==
    /\ pc = "done"
    /\ raw_code = ScenarioText
    /\ classified = <<"skipped", "root", "branch", "branch", "branch">>
    /\ Len(OutLines) = 5

\* the lines of the argument as the caller passed it
RawLines == Split(raw_code, "\n")

\* the positions of the parenthesized lines among ls
ParenthesizedIn(ls) == {k \in 1..Len(ls) : IsParenthesized(Strip(ls[k]))}

\* the root line made of the first parenthesized line among ls
RootLineFrom(ls) ==
    root_prefix \o NodeContent(Strip(ls[SetMin(ParenthesizedIn(ls))])) \o <<")">>

\* the text was returned on the normal path, not as the fallback
NormalReturn == pc = "done" /\ Len(fixed_lines) >= MinStructureLines

\* C18, as stated: on the normal path the root line is built from the first
\* line of the input that is parenthesized once trimmed, and no other line
\* is a root line.
C18_AsStated ==
    NormalReturn =>
        /\ ParenthesizedIn(RawLines) # {}
        /\ OutLines[2] = RootLineFrom(RawLines)
        /\ \A k \in 3..Len(OutLines) : ~IsRootLine(OutLines[k])

\* C18, amended: on the normal path the root line is built from the first
\* line that is parenthesized once trimmed, among the lines of the text left
\* when the fence markers have been removed; exactly one line was made the
\* root and no later line of the output is a root line.
C18_RootFromFirstParenthesizedLine ==
    NormalReturn =>
        /\ ParenthesizedIn(lines) # {}
        /\ OutLines[2] = RootLineFrom(lines)
        /\ {k \in 1..Len(classified) : classified[k] = "root"} = {SetMin(ParenthesizedIn(lines))}
        /\ \A k \in 3..Len(OutLines) : ~IsRootLine(OutLines[k])

\* a normal return whose root comes from a line that is not the first line
\* of the text and is followed by two more parenthesized lines
C18_Witness ==
    /\ NormalReturn
    /\ SetMin(ParenthesizedIn(lines)) > 1
    /\ Cardinality(ParenthesizedIn(lines)) >= 3
    /\ OutLines[2] = RootLineFrom(lines)

\* the text has the form the generation prompt prescribes: the declaration,
\* a root(T) line, then parenthesized lines and icon lines
root_keyword == <<"r","o","o","t","(">>

PromptForm(code) ==
    LET ls == Split(Strip(code), "\n")
    IN  /\ Len(ls) >= 3
        /\ Strip(ls[1]) = mindmap_keyword
        /\ StartsWith(Strip(ls[2]), root_keyword) /\ EndsWith(Strip(ls[2]), <<")">>)
        /\ \A k \in 3..Len(ls) :
               IsParenthesized(Strip(ls[k])) \/ StartsWith(Strip(ls[k]), icon_prefix)

\* T of the root(T) line of a text in that form
PromptRootTopic(code) ==
    LET line == Strip(Split(Strip(code), "\n")[2])
    IN  SubSeq(line, Len(root_keyword) + 1, Len(line) - 1)

\* C19: for a text in the form the prompt prescribes the root line of the
\* output is root(T) for the T of the input, and no branch line of the
\* input is made the root.
C19_PromptFormKeepsItsRoot ==
    (pc = "done" /\ PromptForm(raw_code)) =>
        /\ OutLines[2] = root_prefix \o PromptRootTopic(raw_code) \o <<")">>
        /\ \A k \in 1..Len(classified) : classified[k] = "root" => k = 2

\* C20: once the root is found, a parenthesized line is appended as a branch
\* at 4 spaces if its lowercased content contains a keyword and fewer than 4
\* branch lines have been appended so far, and as a nested item at 6 spaces
\* in every other case.
C20_BranchIffKeywordAndRoom ==
    [][ (pc = "loop" /\ idx <= Len(lines) /\ root_found
         /\ IsParenthesized(Strip(lines[idx]))) =>
            LET content == NodeContent(Strip(lines[idx]))
                has_keyword == \E w \in main_branch_keywords : Contains(Lower(content), w)
                emitted == Cardinality({k \in 1..Len(fixed_lines) :
                                            IsTopLevelBranchLine(fixed_lines[k])})
            IN  fixed_lines' =
                    Append(fixed_lines,
                           IF has_keyword /\ emitted < 4
                           THEN <<" "," "," "," ","(">> \o content \o <<")">>
                           ELSE <<" "," "," "," "," "," ","(">> \o content \o <<")">>) ]_vars

\* the loop has made four branches, nested a keyword line that came after
\* them, and nested a line without a keyword
C20_Witness ==
    /\ pc = "done"
    /\ Cardinality({k \in 1..Len(classified) : classified[k] = "branch"}) = 4
    /\ \E k \in 1..Len(classified) :
           classified[k] = "sub_item" /\ IsMainBranch(NodeContent(Strip(lines[k])))
    /\ \E k \in 1..Len(classified) :
           classified[k] = "sub_item" /\ ~IsMainBranch(NodeContent(Strip(lines[k])))

IsIconLine(l) == StartsWith(Strip(l), icon_prefix)

\* C21: the loop appends an icon line, at 6 spaces, exactly when a branch
\* line has been appended before it, and drops it otherwise; so among the
\* lines built for the returned text every icon line comes after a branch
\* line, and the root line (the second) is never an icon line.
C21_IconOnlyAfterBranch ==
    [][ /\ (pc = "loop" /\ idx <= Len(lines) /\ IsIconLine(lines[idx])) =>
               fixed_lines' =
                   IF \E k \in 1..Len(fixed_lines) : IsTopLevelBranchLine(fixed_lines[k])
                   THEN Append(fixed_lines,
                               <<" "," "," "," "," "," ">> \o Strip(lines[idx]))
                   ELSE fixed_lines
        /\ \A k \in 1..Len(fixed_lines') :
               IsIconLine(fixed_lines'[k]) =>
                   /\ k > 2
                   /\ \E j \in 1..(k - 1) : IsTopLevelBranchLine(fixed_lines'[j]) ]_vars

\* a text with an icon line before the root, one between the root and the
\* first branch, and one after the branch: only the last is in the output
C21_Witness ==
    /\ pc = "done"
    /\ classified = <<"icon_dropped", "root", "icon_dropped", "branch", "icon", "sub_item">>
    /\ Cardinality({k \in 1..Len(OutLines) : IsIconLine(OutLines[k])}) = 1

\* C28: the repair pass returns its own output unchanged:
\* validate_and_fix_mermaid(validate_and_fix_mermaid(x)) is
\* validate_and_fix_mermaid(x) for every x, the fallback skeleton included.
C28_RepairIsIdempotent ==
    pc = "done" => validate_and_fix_mermaid(repaired[1]) = repaired[1]

\* C29: the fallback skeleton is returned exactly when the text left after
\* the fence markers are removed has fewer than two parenthesized lines;
\* with fewer than two, the loop has appended nothing but the root made of
\* the one parenthesized line (no icon line, keyword line or free-text line
\* is counted), and with two or more the text built by the loop is returned.
C29_FallbackIffFewerThanTwoNodes ==
    pc = "done" =>
        LET nodes == Cardinality(ParenthesizedIn(lines))
        IN  /\ repaired[1] = C4_Skeleton <=> nodes < 2
            /\ nodes < 2 => Len(fixed_lines) = 1 + nodes
            /\ nodes >= 2 => repaired[1] = Join(fixed_lines, "\n")

\* the fallback was returned for a text with one parenthesized line, an icon
\* line and a free-text line
C29_Witness ==
    /\ pc = "done"
    /\ Len(lines) = 3
    /\ Cardinality(ParenthesizedIn(lines)) = 1
    /\ \E k \in 1..Len(lines) : IsIconLine(lines[k])
    /\ \E k \in 1..Len(classified) : classified[k] = "ignored"
    /\ repaired[1] = C4_Skeleton

\* the members of a set of positions, in increasing order
Ascending(S) ==
    [j \in 1..Cardinality(S) |-> CHOOSE p \in S : Cardinality({q \in S : q < p}) = j - 1]

IsNodeLine(l) == ~IsIconLine(l)

\* the node lines of the returned text: what follows the declaration, the
\* icon lines left out
NodeLinesOut == SelectSeq(Tail(OutLines), IsNodeLine)

\* how many of ls are not blank
NonBlankCount(ls) == Cardinality({k \in 1..Len(ls) : Strip(ls[k]) # <<>>})

\* C30, as stated: on the normal path the returned text has as many node
\* lines as the input has parenthesized lines (they correspond one-to-one),
\* and at most one line more than the input has non-blank lines.
C30_AsStated ==
    NormalReturn =>
        /\ Len(NodeLinesOut) = Cardinality(ParenthesizedIn(RawLines))
        /\ Len(OutLines) <= NonBlankCount(RawLines) + 1

\* C30, amended: on the normal path the node lines of the returned text are,
\* one-to-one and in order, the parenthesized lines of the text left when the
\* fence markers have been removed: the first as root(c), every other as (c)
\* at 4 or at 6 spaces, c being the content of the line; and the returned
\* text has at most one line more than the input has non-blank lines.
C30_NodeLinesAreTheParenthesizedLines ==
    NormalReturn =>
        LET par == Ascending(ParenthesizedIn(lines))
            nodes == NodeLinesOut
        IN  /\ Len(nodes) = Len(par)
            /\ \A j \in 1..Len(par) :
                   LET c == NodeContent(Strip(lines[par[j]]))
                   IN  IF j = 1
                       THEN nodes[j] = <<" "," ","r","o","o","t","(">> \o c \o <<")">>
                       ELSE \/ nodes[j] = <<" "," "," "," ","(">> \o c \o <<")">>
                            \/ nodes[j] = <<" "," "," "," "," "," ","(">> \o c \o <<")">>
            /\ Len(OutLines) <= NonBlankCount(lines) + 1
            /\ Len(OutLines) <= NonBlankCount(RawLines) + 1

\* a normal return for a text of at least five lines, with blank, icon and
\* free-text lines among at least three parenthesized lines, one of them
\* returned as a branch and one as a nested item
C30_Witness ==
    /\ NormalReturn
    /\ Len(lines) >= 5
    /\ Cardinality(ParenthesizedIn(lines)) >= 3
    /\ Cardinality(ParenthesizedIn(lines)) < NonBlankCount(lines)
    /\ \E k \in 1..Len(classified) : classified[k] = "branch"
    /\ \E k \in 1..Len(classified) : classified[k] = "sub_item"
    /\ Len(NodeLinesOut) = Cardinality(ParenthesizedIn(lines))

-----------------------------------------------------------------------------
(* Claims about analyze_diagram_complexity, checked under SpecComplexity.   *)

\* C7: the complexity score is an integer from 0 to 100 for every text, and
\* with no node found the text-density and branching terms add nothing: the
\* score is the depth term plus the bonus of the type.
C7_ScoreInRange ==
    analysis # <<>> =>
        /\ analysis[1].complexity_score \in 0..100
        /\ analysis[1].node_count = 0 =>
             /\ analysis[1].text_density = <<0, 1>>
             /\ analysis[1].branching_factor = <<0, 1>>
             /\ analysis[1].complexity_score =
                    (IF 5 * analysis[1].max_depth < 25 THEN 5 * analysis[1].max_depth ELSE 25)
                    + (CASE analysis[1].type = "flowchart" -> 8
                         [] analysis[1].type = "timeline" -> 4
                         [] analysis[1].type = "network" -> 10
                         [] OTHER -> 5)

\* a flow or graph text with connectors and no labelled node has been scored
C7_Witness ==
    /\ analysis # <<>>
    /\ analysis[1].node_count = 0
    /\ analysis[1].edge_count > 0
    /\ analysis[1].complexity_score \in {8, 10}

\* C8 as stated: the recommended height is at least 100 px per node and at
\* most 2500 px.
C8_AsStated ==
    analysis # <<>> =>
        /\ analysis[1].recommended_height >= analysis[1].node_count * 100
        /\ analysis[1].recommended_height <= 2500

\* C8 amended: the recommended height is at most 2500 px and at least the
\* smaller of 100 px per node and 2500 px.
C8_HeightWithinCappedBounds ==
    analysis # <<>> =>
        /\ analysis[1].recommended_height <= 2500
        /\ analysis[1].recommended_height >=
               (IF analysis[1].node_count * 100 < 2500
                THEN analysis[1].node_count * 100 ELSE 2500)

\* the per-node minimum decided the height: it is above the band of the
\* score and below the cap
C8_Witness ==
    /\ analysis # <<>>
    /\ analysis[1].node_count \in 19..24
    /\ analysis[1].recommended_height = analysis[1].node_count * 100
    /\ analysis[1].complexity_score <= 40

\* the text holds none of the four keywords the type is detected from
NoTypeKeyword(code) ==
    /\ ~Contains(code, mindmap_keyword)
    /\ ~Contains(code, flowchart_keyword)
    /\ ~Contains(code, timeline_keyword)
    /\ ~Contains(code, graph_keyword)

CodeLines == Split(Strip(diagram_code), "\n")

\* the positions of the lines that are neither blank nor comments
ReadLines == {k \in 1..Len(CodeLines) : ~IsBlankOrComment(Strip(CodeLines[k]))}

\* C22: max_depth is the greatest indentation, in 2-space units, of the
\* non-blank non-comment lines as they stand in the text (0 if there is none).
C22_MaxDepthIsGreatestIndent ==
    analysis # <<>> =>
        analysis[1].max_depth = SetMax({0} \cup {IndentLevel(CodeLines[k]) : k \in ReadLines})

\* C23, as stated: the branching factor is edge_count / max(node_count, 1)
\* for every text, texts with connectors and no labelled node included.
C23_AsStated ==
    analysis # <<>> =>
        analysis[1].branching_factor =
            <<analysis[1].edge_count, Max2(analysis[1].node_count, 1)>>

\* C23, amended: the branching factor is edge_count / node_count when the
\* node set is not empty, and 0 when it is empty, whatever edge_count is.
C23_BranchingFactorGuarded ==
    analysis # <<>> =>
        IF analysis[1].node_count > 0
        THEN analysis[1].branching_factor = <<analysis[1].edge_count, analysis[1].node_count>>
        ELSE analysis[1].branching_factor = <<0, 1>>

\* a text with connectors and labelled nodes whose quotient is not whole
C23_Witness ==
    /\ analysis # <<>>
    /\ analysis[1].node_count >= 2
    /\ analysis[1].edge_count >= 1
    /\ analysis[1].edge_count % analysis[1].node_count # 0
    /\ analysis[1].branching_factor = <<analysis[1].edge_count, analysis[1].node_count>>

\* the band heights of the claim
BandHeight(score) ==
    CASE score <= 20 -> 1000
      [] score > 20 /\ score <= 40 -> 1400
      [] score > 40 /\ score <= 60 -> 1800
      [] score > 60 /\ score <= 80 -> 2200
      [] score > 80 -> 2600

\* C24: recommended_height is min(2500, max(B(score), 100 x node_count)) for
\* the band height B of the score; it lies between 1000 and 2500, and for the
\* node count of the report no lower score gives a greater height and no
\* higher score a smaller one.
C24_HeightFormula ==
    analysis # <<>> =>
        LET n == analysis[1].node_count
            height == analysis[1].recommended_height
        IN  /\ height = Min2(2500, Max2(BandHeight(analysis[1].complexity_score), 100 * n))
            /\ height >= 1000 /\ height <= 2500
            /\ \A s \in 0..100 :
                   /\ s <= analysis[1].complexity_score => RecommendedHeight(s, n) <= height
                   /\ s >= analysis[1].complexity_score => RecommendedHeight(s, n) >= height

\* a report in the second band whose height is the band height
C24_Witness ==
    /\ analysis # <<>>
    /\ analysis[1].complexity_score > 20
    /\ analysis[1].complexity_score <= 40
    /\ analysis[1].node_count >= 1
    /\ analysis[1].recommended_height = 1400

-----------------------------------------------------------------------------
(* Claims about a session                                                   *)

\* the url the last request fetches, or would fetch: show_main_page passes
\* the normalised url to scrape_text (line 350), the package entry the url
\* as typed (line 102)
FetchedUrl ==
    IF entry_point = "app" THEN normalize_url(Strip(request_url[1])) ELSE request_url[1]

SummaryShown(k) == displayed[k].kind = "summary"

\* C11: the page text handed to the summarizer and to the diagram generator
\* for a submitted url, and the summary shown for it, were obtained from that
\* url: text or summary cached for another url is not reused.
C11_TextAndSummaryComeFromTheSubmittedUrl ==
    request_url # <<>> =>
        /\ \A k \in 1..Len(calls) :
               calls[k].fn \in {"summarize_with_claude"} \cup GenerateFns
                   => calls[k].arg = TextOf(FetchedUrl)
        /\ \A k \in 1..Len(displayed) :
               SummaryShown(k) =>
                   \E reply \in SummaryReplies(TextOf(FetchedUrl)) :
                       displayed[k].content = summarize_with_claude(reply)

\* the last script run handled a request (line 328; package line 88)
Requested == request_url # <<>>

\* the url of the last request passes the url check of its entry point
\* (main.py 336; neurommind_mapper/main.py 90)
UrlAccepted ==
    IF entry_point = "app"
    THEN normalize_url(Strip(request_url[1])) # <<>>
         /\ HasProtocol(normalize_url(Strip(request_url[1])))
    ELSE HasProtocol(request_url[1])

ConfigError == <<Shown("config_error", <<>>)>>

\* the environment variable is unset or holds the empty string
NoApiKey == api_key = <<>> \/ api_key = << <<>> >>

\* C12, as stated: with the API key absent from the environment, every
\* submitted request shows the configuration error and makes no call.
C12_AsStated ==
    (Requested /\ NoApiKey) => (displayed = ConfigError /\ calls = <<>>)

\* C12, amended: with the API key unset or empty, a submitted request makes
\* no page fetch and no LLM call and shows exactly one error: the url error
\* if the url fails the url check, which runs first, and the configuration
\* error otherwise.
C12_NoCallWithoutApiKey ==
    (Requested /\ NoApiKey) =>
        /\ calls = <<>>
        /\ displayed = IF UrlAccepted THEN ConfigError
                       ELSE <<Shown("url_error", request_url[1])>>

C12_Witness ==
    /\ entry_point = "app"
    /\ api_key = << <<>> >>
    /\ Requested
    /\ displayed = ConfigError
    /\ calls = <<>>

FetchError(k) == displayed[k].kind = "fetch_error"

\* C13: a fetch that fails (status other than 200, or an exception) makes
\* scrape_text return a string that starts with Failed or Error; the run that
\* received it makes no other call, shows the fetch error and nothing else,
\* and leaves cached_text and cached_summary as they were.
C13_FetchFailureEndsTheRequest ==
    [][ (\E k \in 1..Len(calls') : calls'[k].fn = "scrape_text" /\ calls'[k].failed) =>
            /\ \A response \in Responses(calls'[1].arg) :
                   FetchFailed(response) => LooksFailed(scrape_text(response))
            /\ Len(calls') = 1
            /\ Len(displayed') = 1
            /\ displayed'[1].kind = "fetch_error"
            /\ cached_text' = cached_text
            /\ cached_summary' = cached_summary ]_vars

C13_Witness ==
    /\ Len(calls) = 1
    /\ calls[1].fn = "scrape_text"
    /\ calls[1].failed
    /\ Len(displayed) = 1
    /\ FetchError(1)

\* the failure strings the generation functions return
FailureStrings ==
    {summarize_with_claude(reply) : reply \in {r \in SummaryReplies(<<>>) : r.raised}}
    \cup UNION { {generate_with_claude(type, reply) :
                      reply \in {r \in DiagramReplies(type) : r.raised}} :
                 type \in DiagramTypes }

\* C14: a failure string of a generation function ends the request: it is
\* not stored in cached_summary, not shown as the summary or as a diagram,
\* not passed to validate_and_fix_mermaid or create_mermaid_html, and the
\* call that returned it is the last call of the run.
C14_FailureStringsEndTheRequest ==
    /\ cached_summary # <<>> => cached_summary[1] \notin FailureStrings
    /\ \A k \in 1..Len(displayed) :
           displayed[k].kind \in {"summary", "diagram_code", "html"}
               => displayed[k].content \notin FailureStrings
    /\ \A k \in 1..Len(calls) :
           /\ calls[k].fn \in {"validate_and_fix_mermaid", "create_mermaid_html"}
                  => calls[k].arg \notin FailureStrings
           /\ calls[k].failed => k = Len(calls)

\* the place of a function in the chain fetch, summarize, generate, repair, render
Stage(fn) ==
    CASE fn = "scrape_text" -> 1
      [] fn = "summarize_with_claude" -> 2
      [] fn \in GenerateFns -> 3
      [] fn = "validate_and_fix_mermaid" -> 4
      [] fn = "create_mermaid_html" -> 5

\* C15: in both entry points the calls of one request are made in the order
\* fetch, summarize, generate, repair, render, and a mindmap is given to
\* create_mermaid_html only as validate_and_fix_mermaid returned it.
C15_ChainInOrderAndMindmapRepaired ==
    /\ \A j, k \in 1..Len(calls) : j < k => Stage(calls[j].fn) < Stage(calls[k].fn)
    /\ \A k \in 1..Len(calls) :
           (/\ calls[k].fn = "create_mermaid_html"
            /\ \E j \in 1..(k - 1) : calls[j].fn = "generate_mindmap_with_claude")
               => \E j \in 1..(k - 1) :
                      /\ calls[j].fn = "validate_and_fix_mermaid"
                      /\ calls[k].arg = validate_and_fix_mermaid(calls[j].arg)

\* C17: the run that follows a press of a button of the change section
\* (regenerate set) takes its url from last_url, clears regenerate, makes
\* exactly one call, a diagram-generation call on cached_text, shows
\* cached_summary and leaves both cached values as they were.
C17_RegenerateReusesTheCache ==
    [][ (regenerate /\ script = "rerun" /\ script' = "waiting") =>
            /\ ~regenerate'
            /\ request_url' = last_url
            /\ \A k \in 1..Len(calls') :
                   calls'[k].fn \notin {"scrape_text", "summarize_with_claude"}
            /\ Cardinality({k \in 1..Len(calls') : calls'[k].fn \in GenerateFns}) = 1
            /\ \A k \in 1..Len(calls') :
                   calls'[k].fn \in GenerateFns =>
                       /\ calls'[k].fn = GenerateFn(selected_diagram[1])
                       /\ calls'[k].arg = cached_text[1]
            /\ \E k \in 1..Len(displayed') :
                   /\ displayed'[k].kind = "summary"
                   /\ displayed'[k].content = cached_summary[1]
            /\ cached_text' = cached_text
            /\ cached_summary' = cached_summary ]_vars

C17_Witness ==
    /\ run = "regenerate"
    /\ script = "waiting"
    /\ ~regenerate
    /\ selected_diagram = <<"flowchart">>
    /\ Len(calls) = 2
    /\ calls[1].fn = "generate_flowchart_with_claude"
    /\ calls[2].fn = "create_mermaid_html"

\* C25: the run treats the result of scrape_text as a fetch failure (it shows
\* the fetch error) if and only if the fetch failed (status other than 200,
\* or an exception); a page fetched with status 200 is never reported as
\* inaccessible.
C25_FetchErrorIffFetchFailed ==
    \A k \in 1..Len(calls) :
        calls[k].fn = "scrape_text" =>
            (calls[k].failed <=> \E j \in 1..Len(displayed) : FetchError(j))

OriginalText(k) == displayed[k].kind = "original_text"

\* C26: in src/src/main.py the original text is shown in the run that fetches
\* the text of a url (the fetch is made and its result accepted) and in no
\* run that takes the text from the cache.
C26_OriginalTextShownByTheFetchingRun ==
    entry_point = "app" =>
        ((\E k \in 1..Len(displayed) : OriginalText(k))
            <=> (/\ \E k \in 1..Len(calls) : calls[k].fn = "scrape_text"
                 /\ \A j \in 1..Len(displayed) : ~FetchError(j)))

-----------------------------------------------------------------------------
(* Claims about create_mermaid_html, checked under SpecHtml.                *)

\* C27: the constant diagramCode of the page has the argument of
\* create_mermaid_html as its value, whatever the argument holds (backticks,
\* backslashes, double quotes, line ends): the template literal built from
\* escaped_code ends where escaped_code ends and evaluates to the raw text.
C27_DiagramCodeRoundTrips ==
    html_code # <<>> => DiagramCode(html_code[1]) = <<diagram_code>>

====
